---- MODULE Spec2Model ----
(***************************************************************************)
(* The multithreaded prime counter of src/primes.c: main starts           *)
(* THREAD_COUNT threads running calculate_primes, joins them, sums the     *)
(* per-thread counters prime_count[] and prints the total and the elapsed  *)
(* time.  N and THREAD_COUNT are #defines of the source; here they are     *)
(* chosen in Init from small ranges and never change afterwards.          *)
(***************************************************************************)
EXTENDS Integers, Sequences, FiniteSets

\* Largest domain bound N tried (the source fixes N = 1000000).
MaxN == 10
\* Largest THREAD_COUNT tried (the source fixes THREAD_COUNT = 8).
MaxT == 3
\* Largest N and THREAD_COUNT tried when the primality test is examined
\* (SpecTrial): large enough for the values 17 and 18 to be tested.
MaxV == 19
MaxTV == 2
\* sizeof(short) on the platforms the program is built for; printed by line 34.
SizeofShort == 2

VARIABLES
    N,              \* #define N
    T,              \* #define THREAD_COUNT
    pc,             \* main's position
    i,              \* main's loop index i
    primes_counted, \* main's local primes_counted
    t_array,        \* main's t_array[]: "null" (0), "thread" (a started thread), "invalid"
    start,          \* main's struct timeval start (logical time, -1 = not yet written)
    stop,           \* main's struct timeval stop
    out,            \* lines written to standard output so far
    prime_count,    \* the global int prime_count[THREAD_COUNT]
    wpc,            \* position of the thread started for index k
    wi,             \* calculate_primes' local i of thread k
    flag,           \* calculate_primes' local flag of thread k
    thread_number,  \* calculate_primes' local thread_number of thread k
    tmp,            \* value loaded by the read half of prime_count[..]++
    visited,        \* history: the values thread k has run the test on, in order
    counted,        \* history: the values for which thread k executed line 25
    writers         \* history: per slot, the threads that stored to it

vars == <<N, T, pc, i, primes_counted, t_array, start, stop, out, prime_count,
          wpc, wi, flag, thread_number, tmp, visited, counted, writers>>

mainVars == <<pc, i, primes_counted, t_array, start, stop, out>>
workerVars == <<wpc, wi, flag, thread_number, tmp, visited, counted>>

Threads == 0 .. (T - 1)

\* Logical clock read by gettimeofday: the number of lines already on stdout.
Now == Len(out)

----------------------------------------------------------------------------
\* calculate_primes, lines 16-22: the trial-division loop started at j;
\* the value left in flag.
RECURSIVE ForLoop(_, _)
ForLoop(v, j) ==
    IF j <= v \div 2
    THEN IF v % j = 0 THEN 1 ELSE ForLoop(v, j + 1)
    ELSE 0

TrialDivision(v) == ForLoop(v, 2)

\* Line 24: the condition under which the counter is incremented.
CountedNoLowerBound(f, v) == f = 0
Counted(f, v) == f = 0 /\ v > 1

\* Line 15: the worker's loop condition.
InRange(v) == v < N

\* Line 27: i += THREAD_COUNT.
StrideOffByOne(v) == v + T + 1
Stride(v) == v + T

\* Line 25: the slot of prime_count that thread k increments.
SlotShared(k) == 0
Slot(k) == thread_number[k]

\* Line 43: the argument handed to the thread created for index idx.
CreateArgZero(idx) == 0
CreateArg(idx) == idx

\* Line 47: pthread_join(t_array[idx]) returns once that thread has terminated.
JoinReturnsEarly(idx) == TRUE
JoinReturns(idx) == wpc[idx] = "done"

\* Line 46: the join loop's condition.
JoinContinueOneMore(idx) == idx <= T
JoinContinue(idx) == idx < T

\* Line 50: the reduction loop's condition.
SumContinueShort(idx) == idx < T - 1
SumContinue(idx) == idx < T

----------------------------------------------------------------------------
\* The state when main is entered: statics initialised (line 10), no thread yet.
InitWith(maxN, maxT) ==
    /\ N \in -1 .. maxN
    /\ T \in 1 .. maxT
    /\ pc = "L34"
    /\ i = 0
    /\ primes_counted = 0
    /\ t_array = [k \in 0 .. (T - 1) |-> "null"]
    /\ start = -1
    /\ stop = -1
    /\ out = <<>>
    /\ prime_count = [k \in 0 .. (T - 1) |-> 0]
    /\ wpc = [k \in 0 .. (T - 1) |-> "idle"]
    /\ wi = [k \in 0 .. (T - 1) |-> 0]
    /\ flag = [k \in 0 .. (T - 1) |-> 0]
    /\ thread_number = [k \in 0 .. (T - 1) |-> 0]
    /\ tmp = [k \in 0 .. (T - 1) |-> 0]
    /\ visited = [k \in 0 .. (T - 1) |-> <<>>]
    /\ counted = [k \in 0 .. (T - 1) |-> {}]
    /\ writers = [k \in 0 .. (T - 1) |-> {}]

----------------------------------------------------------------------------
\* main

\* Line 34: printf("%lu\n", sizeof(short)).
PrintSizeof ==
    /\ pc = "L34"
    /\ out' = Append(out, [kind |-> "sizeof", val |-> SizeofShort])
    /\ pc' = "L40"
    /\ UNCHANGED <<N, T, i, primes_counted, t_array, start, stop, prime_count,
                   writers>>
    /\ UNCHANGED workerVars

\* Line 40: gettimeofday(&start, NULL); then i = 0 of the first for.
GetStart ==
    /\ pc = "L40"
    /\ start' = Now
    /\ i' = 0
    /\ pc' = "create"
    /\ UNCHANGED <<N, T, primes_counted, t_array, stop, out, prime_count, writers>>
    /\ UNCHANGED workerVars

\* Lines 42-44, loop body: pthread_create succeeds and the new thread starts
\* calculate_primes with ptr = i (line 13 sets i and thread_number from it).
Create ==
    /\ pc = "create"
    /\ i < T
    /\ t_array' = [t_array EXCEPT ![i] = "thread"]
    /\ wpc' = [wpc EXCEPT ![i] = "while"]
    /\ wi' = [wi EXCEPT ![i] = CreateArg(i)]
    /\ thread_number' = [thread_number EXCEPT ![i] = CreateArg(i)]
    /\ i' = i + 1
    /\ UNCHANGED <<N, T, pc, primes_counted, start, stop, out, prime_count,
                   flag, tmp, visited, counted, writers>>

\* Line 42, loop exit; i = 0 of the second for.
CreateEnd ==
    /\ pc = "create"
    /\ ~(i < T)
    /\ pc' = "join"
    /\ i' = 0
    /\ UNCHANGED <<N, T, primes_counted, t_array, start, stop, out, prime_count,
                   writers>>
    /\ UNCHANGED workerVars

\* Lines 46-48, loop body: pthread_join on a started thread blocks until it
\* has terminated.
Join ==
    /\ pc = "join"
    /\ JoinContinue(i)
    /\ i \in Threads
    /\ t_array[i] = "thread"
    /\ JoinReturns(i)
    /\ i' = i + 1
    /\ UNCHANGED <<N, T, pc, primes_counted, t_array, start, stop, out,
                   prime_count, writers>>
    /\ UNCHANGED workerVars

\* Line 46, loop exit; i = 0 of the third for.
JoinEnd ==
    /\ pc = "join"
    /\ ~JoinContinue(i)
    /\ pc' = "sum"
    /\ i' = 0
    /\ UNCHANGED <<N, T, primes_counted, t_array, start, stop, out, prime_count,
                   writers>>
    /\ UNCHANGED workerVars

\* Lines 50-52, loop body: primes_counted = primes_counted + prime_count[i].
Sum ==
    /\ pc = "sum"
    /\ SumContinue(i)
    /\ primes_counted' = primes_counted + prime_count[i]
    /\ i' = i + 1
    /\ UNCHANGED <<N, T, pc, t_array, start, stop, out, prime_count, writers>>
    /\ UNCHANGED workerVars

\* Line 50, loop exit.
SumEnd ==
    /\ pc = "sum"
    /\ ~SumContinue(i)
    /\ pc' = "L54"
    /\ UNCHANGED <<N, T, i, primes_counted, t_array, start, stop, out,
                   prime_count, writers>>
    /\ UNCHANGED workerVars

\* Line 54: printf("%d primes found\n", primes_counted).
PrintCount ==
    /\ pc = "L54"
    /\ out' = Append(out, [kind |-> "count", val |-> primes_counted])
    /\ pc' = "L56"
    /\ UNCHANGED <<N, T, i, primes_counted, t_array, start, stop, prime_count,
                   writers>>
    /\ UNCHANGED workerVars

\* Line 56: gettimeofday(&stop, NULL).
GetStop ==
    /\ pc = "L56"
    /\ stop' = Now
    /\ pc' = "L57"
    /\ UNCHANGED <<N, T, i, primes_counted, t_array, start, out, prime_count,
                   writers>>
    /\ UNCHANGED workerVars

\* Lines 57-59: printf("took %f sec\n", stop - start); return 0.
PrintTook ==
    /\ pc = "L57"
    /\ out' = Append(out, [kind |-> "took", val |-> stop - start])
    /\ pc' = "done"
    /\ UNCHANGED <<N, T, i, primes_counted, t_array, start, stop, prime_count,
                   writers>>
    /\ UNCHANGED workerVars

MainNext ==
    \/ PrintSizeof \/ GetStart \/ Create \/ CreateEnd \/ Join \/ JoinEnd
    \/ Sum \/ SumEnd \/ PrintCount \/ GetStop \/ PrintTook

----------------------------------------------------------------------------
\* calculate_primes, one thread k

\* Lines 15-22: the while test and, inside the loop, the trial division of i.
WWhile(k) ==
    /\ wpc[k] = "while"
    /\ IF InRange(wi[k])
       THEN /\ flag' = [flag EXCEPT ![k] = TrialDivision(wi[k])]
            /\ visited' = [visited EXCEPT ![k] = Append(@, wi[k])]
            /\ wpc' = [wpc EXCEPT ![k] = "if"]
       ELSE /\ wpc' = [wpc EXCEPT ![k] = "done"]
            /\ UNCHANGED <<flag, visited>>
    /\ UNCHANGED <<N, T, prime_count, wi, thread_number, tmp, counted, writers>>
    /\ UNCHANGED mainVars

\* Line 24: if (flag == 0 && i > 1).
WIf(k) ==
    /\ wpc[k] = "if"
    /\ wpc' = [wpc EXCEPT ![k] = IF Counted(flag[k], wi[k]) THEN "load" ELSE "step"]
    /\ UNCHANGED <<N, T, prime_count, wi, flag, thread_number, tmp, visited,
                   counted, writers>>
    /\ UNCHANGED mainVars

\* Line 25, first half of prime_count[thread_number]++: the read.
WLoad(k) ==
    /\ wpc[k] = "load"
    /\ Slot(k) \in Threads
    /\ tmp' = [tmp EXCEPT ![k] = prime_count[Slot(k)]]
    /\ wpc' = [wpc EXCEPT ![k] = "store"]
    /\ UNCHANGED <<N, T, prime_count, wi, flag, thread_number, visited, counted,
                   writers>>
    /\ UNCHANGED mainVars

\* Line 25, second half: the write.
WStore(k) ==
    /\ wpc[k] = "store"
    /\ prime_count' = [prime_count EXCEPT ![Slot(k)] = tmp[k] + 1]
    /\ writers' = [writers EXCEPT ![Slot(k)] = @ \cup {k}]
    /\ counted' = [counted EXCEPT ![k] = @ \cup {wi[k]}]
    /\ wpc' = [wpc EXCEPT ![k] = "step"]
    /\ UNCHANGED <<N, T, wi, flag, thread_number, tmp, visited>>
    /\ UNCHANGED mainVars

\* Line 27: i += THREAD_COUNT.
WStep(k) ==
    /\ wpc[k] = "step"
    /\ wi' = [wi EXCEPT ![k] = Stride(wi[k])]
    /\ wpc' = [wpc EXCEPT ![k] = "while"]
    /\ UNCHANGED <<N, T, prime_count, flag, thread_number, tmp, visited, counted,
                   writers>>
    /\ UNCHANGED mainVars

Worker(k) ==
    /\ k \in Threads
    /\ (WWhile(k) \/ WIf(k) \/ WLoad(k) \/ WStore(k) \/ WStep(k))

WorkerNext == \E k \in Threads : Worker(k)

----------------------------------------------------------------------------
\* pthread_create fails (EAGAIN): no thread is started, what is left in
\* t_array[i] is unspecified, and line 43 ignores the return value.
CreateFail ==
    /\ pc = "create"
    /\ i < T
    /\ t_array' = [t_array EXCEPT ![i] = "invalid"]
    /\ i' = i + 1
    /\ UNCHANGED <<N, T, pc, primes_counted, start, stop, out, prime_count,
                   writers>>
    /\ UNCHANGED workerVars

\* Line 47 on a handle that names no thread is undefined behaviour; one
\* outcome: pthread_join returns an error at once, which line 47 ignores.
JoinInvalidReturns ==
    /\ pc = "join"
    /\ JoinContinue(i)
    /\ i \in Threads
    /\ t_array[i] = "invalid"
    /\ i' = i + 1
    /\ UNCHANGED <<N, T, pc, primes_counted, t_array, start, stop, out,
                   prime_count, writers>>
    /\ UNCHANGED workerVars

\* The other outcome: the process dies inside pthread_join.
JoinInvalidCrash ==
    /\ pc = "join"
    /\ JoinContinue(i)
    /\ i \in Threads
    /\ t_array[i] = "invalid"
    /\ pc' = "crashed"
    /\ UNCHANGED <<N, T, i, primes_counted, t_array, start, stop, out,
                   prime_count, writers>>
    /\ UNCHANGED workerVars

\* The "count" lines printed so far.
Totals == SelectSeq(out, LAMBDA l : l.kind = "count")

----------------------------------------------------------------------------
Init == InitWith(MaxN, MaxT)

InitTrial == InitWith(MaxV, MaxTV)

Next == MainNext \/ WorkerNext

NextCreateFail == Next \/ CreateFail \/ JoinInvalidReturns \/ JoinInvalidCrash

\* The program with every pthread_create succeeding.
Spec == Init /\ [][Next]_vars

\* The same program, larger N, fewer threads: for the primality test.
SpecTrial == InitTrial /\ [][Next]_vars

\* The program when pthread_create may fail.
SpecCreateFail == Init /\ [][NextCreateFail]_vars

\* The scheduler runs main and every started thread again and again.
Fairness ==
    /\ WF_vars(MainNext)
    /\ \A k \in 0 .. (MaxT - 1) : WF_vars(Worker(k))

FairSpec == Spec /\ Fairness

----------------------------------------------------------------------------
\* Helpers of the properties below.

\* The count a sequential scan of [0, N) obtains with the test of lines 16-24.
SeqCount == Cardinality({v \in 0 .. (N - 1) : Counted(TrialDivision(v), v)})

\* v is a prime number.
IsPrimeNumber(v) == v >= 2 /\ \A d \in 2 .. (v - 1) : v % d # 0

\* How often thread k has run the test on v.
Occ(k, v) == Cardinality({p \in DOMAIN visited[k] : visited[k][p] = v})

RECURSIVE OccUpTo(_, _)
OccUpTo(k, v) == IF k < 0 THEN 0 ELSE Occ(k, v) + OccUpTo(k - 1, v)

\* How often v has been tested by all threads together.
OccAll(v) == OccUpTo(T - 1, v)

\* Every value any thread has tested.
VisitedValues == UNION {{visited[k][p] : p \in DOMAIN visited[k]} : k \in Threads}

\* The values for which thread k has passed line 24 (and line 25, if taken).
Processed(k) ==
    {visited[k][p] : p \in DOMAIN visited[k]}
        \ (IF wpc[k] \in {"if", "load", "store"} THEN {wi[k]} ELSE {})

AllDone == \A k \in Threads : wpc[k] = "done"

Reduced == pc \in {"L54", "L56", "L57", "done"}

HasCountLine == \E p \in DOMAIN out : out[p].kind = "count"

----------------------------------------------------------------------------
\* C1: for N > 0 and T > 0, whatever the interleaving, the total main has
\* once the reduction loop is over, and the total it prints, equal the count
\* of a sequential scan of [0, N) with the same test (so it depends neither
\* on T nor on the schedule).
TotalMatchesSequential ==
    (N > 0 /\ T > 0) =>
        /\ Reduced => primes_counted = SeqCount
        /\ \A p \in DOMAIN out : out[p].kind = "count" => out[p].val = SeqCount

TotalMatchesSequentialWitness ==
    pc = "done" /\ N = 10 /\ T = 3 /\ primes_counted = 4
    /\ prime_count = [k \in Threads |-> IF k = 0 THEN 1 ELSE IF k = 1 THEN 1 ELSE 2]

\* C2: the values the threads test are pairwise distinct and all lie in
\* [0, N) at every moment, and once every thread has returned each value of
\* [0, N) has been tested exactly once.
PartitionExact ==
    (N > 0 /\ T > 0) =>
        /\ VisitedValues \subseteq 0 .. (N - 1)
        /\ \A v \in VisitedValues : OccAll(v) = 1
        /\ \A k \in Threads : \A p \in DOMAIN visited[k] : visited[k][p] % T = k
        /\ AllDone => \A v \in 0 .. (N - 1) : OccAll(v) = 1

PartitionExactWitness ==
    AllDone /\ N = 10 /\ T = 3
    /\ visited = [k \in Threads |->
                    IF k = 0 THEN <<0, 3, 6, 9>>
                    ELSE IF k = 1 THEN <<1, 4, 7>> ELSE <<2, 5, 8>>]

\* C3: whenever main is in the reduction loop (about to read an accumulator)
\* or past it, every thread has terminated.
ReadAfterTermination ==
    (pc = "sum" \/ Reduced) => AllDone

ReadAfterTerminationWitness ==
    pc = "sum" /\ i = 1 /\ T = 3 /\ primes_counted > 0 /\ AllDone

\* C4: slot s of prime_count is stored to only by the thread started for
\* index s: every change of a slot is the store step of that thread, so no
\* other thread and no step of main changes it.
SingleWriter ==
    /\ [](\A s \in Threads : writers[s] \subseteq {s})
    /\ [][\A s \in Threads :
            prime_count'[s] # prime_count[s] =>
                /\ wpc[s] = "store" /\ wpc'[s] = "step"
                /\ thread_number[s] = s
                /\ mainVars' = mainVars]_vars

SingleWriterWitness ==
    T = 3 /\ \A s \in Threads : writers[s] = {s} /\ prime_count[s] > 0

\* C7: a tested value is counted exactly if it is at least 2 and has no
\* divisor d with 2 <= d <= v/2, which is exactly if it is a prime number.
CountsExactlyPrimes ==
    \A k \in Threads : \A v \in Processed(k) :
        /\ v >= 0
        /\ (v \in counted[k]) <=> (v >= 2 /\ \A d \in 2 .. (v \div 2) : v % d # 0)
        /\ (v \in counted[k]) <=> IsPrimeNumber(v)

CountsExactlyPrimesWitness ==
    /\ AllDone /\ T = 2 /\ N = 19
    /\ {0, 18} \subseteq Processed(0) /\ {1, 17} \subseteq Processed(1)
    /\ 2 \in counted[0] /\ 17 \in counted[1]
    /\ 0 \notin counted[0] /\ 18 \notin counted[0] /\ 1 \notin counted[1]

\* C8: under fair scheduling every run with N > 0 and T > 0 reaches the end
\* of main with the total printed, every thread having returned; and a
\* started thread that has not returned can always take its next step,
\* whatever the other threads are doing.
RunCompletes ==
    /\ (N > 0 /\ T > 0) ~> (pc = "done" /\ AllDone /\ HasCountLine)
    /\ [](\A k \in 0 .. (MaxT - 1) :
            (k \in Threads /\ wpc[k] \notin {"idle", "done"}) => ENABLED Worker(k))

RunCompletesWitness ==
    pc = "done" /\ AllDone /\ HasCountLine /\ N = 10 /\ T = 3 /\ primes_counted = 4

\* The number of primes in thread k's partition {k, k+T, ...} of [0, N).
PartitionCount(k) ==
    Cardinality({v \in 0 .. (N - 1) : v % T = k /\ IsPrimeNumber(v)})

RECURSIVE PartitionSum(_)
PartitionSum(k) == IF k < 0 THEN 0 ELSE PartitionCount(k) + PartitionSum(k - 1)

\* C9: two runs with the same N and T print the same total, because a run
\* carries nothing over and its result is fixed by N and T: every run is
\* entered with all accumulators and the total at zero, an accumulator is
\* zero until its thread starts, once thread k has returned its accumulator
\* holds the number of primes of partition k whatever the schedule was, and
\* a finished run has printed one total, the sum of these numbers.
TotalDeterminedByConfig ==
    (N > 0 /\ T > 0) =>
        /\ pc = "L34" =>
              primes_counted = 0 /\ \A k \in Threads : prime_count[k] = 0
        /\ \A k \in Threads : wpc[k] = "idle" => prime_count[k] = 0
        /\ \A k \in Threads : wpc[k] = "done" => prime_count[k] = PartitionCount(k)
        /\ pc = "done" =>
              Totals = <<[kind |-> "count", val |-> PartitionSum(T - 1)]>>

TotalDeterminedByConfigWitness ==
    /\ pc = "done" /\ N = 7 /\ T = 2
    /\ prime_count = [k \in Threads |-> IF k = 0 THEN 1 ELSE 2]
    /\ Totals = <<[kind |-> "count", val |-> 3]>>

----------------------------------------------------------------------------
\* C5 as stated: in a run of a valid configuration in which a pthread_create
\* has failed, no total is ever printed.
FailedStartPrintsNoTotal ==
    (N > 0 /\ \E k \in Threads : t_array[k] = "invalid") => ~HasCountLine

\* C6 as stated: with N <= 0 or T <= 0 no thread is started, no accumulator
\* is read, no total is printed, and main does not end normally.
InvalidConfigRejected ==
    (N <= 0 \/ T <= 0) =>
        /\ \A k \in Threads : wpc[k] = "idle" /\ t_array[k] = "null"
        /\ pc \notin {"sum", "done"}
        /\ ~HasCountLine

\* C10 as stated: a finished run of a valid configuration has written exactly the line with the total
\* and then the line with the elapsed time, and the end timestamp was taken
\* before both.
ExactlyTwoLines ==
    (N > 0 /\ T > 0 /\ pc = "done") =>
        /\ Len(out) = 2
        /\ out[1].kind = "count"
        /\ out[2].kind = "took"
        /\ \A p \in DOMAIN out : out[p].kind \in {"count", "took"} => stop < p

====
